---- MODULE Spec2Model ----
(***************************************************************************)
(* A-share K-line tools.                                                   *)
(*   - 2-1-All_K_data-akshare.py : the batch download loop (ingestion)     *)
(*   - 3-2-K_line-MA_line.py     : resample_k_data, add_ma and the Dash    *)
(*                                 callbacks update_chart / display_hover  *)
(* Several specifications share this module: SpecIngest (the download      *)
(* script, run and re-run against one data directory), SpecAgg (load ->    *)
(* resample_k_data -> add_ma over bounded daily series), SpecMA (add_ma    *)
(* over long series) and SpecView (the Dash callbacks).  Variables a       *)
(* specification does not use stay at their initial value.                 *)
(***************************************************************************)
EXTENDS Integers, Sequences, FiniteSets, TLC

VARIABLES
    \* ---- 2-1-All_K_data-akshare.py -------------------------------------
    catalog_exists, \* os.path.exists(CODES_FILE)
    codes,          \* codes_df["code"].tolist()
    files,          \* os.listdir(CODE_DATA_DIR): the set of file names
    pc,             \* position of the script
    i,              \* enumerate(codes, 1) counter of the last handled symbol
    total,          \* len(codes)
    success_count,
    fail_count,
    skip_count,
    \* history of the runs (observation only, never read by the script)
    run,            \* how many times the script has been started
    log,            \* one record per handled symbol of the current run
    files0,         \* the directory listing when the current run started
    prev_log,       \* log of the previous run
    prev_pc,        \* how the previous run ended
    \* ---- 3-2-K_line-MA_line.py: the data pipeline ------------------------
    df,             \* the frame load_local_stock_data returned
    period_arg,     \* the period argument of resample_k_data
    out,            \* the frame after resample_k_data / add_ma
    stage,          \* "loaded", "resampled", "ma", "hover"
    point_index,    \* the pointIndex the pipeline's readout is asked for
    readout,        \* what display_hover returns for it
    \* ---- 3-2-K_line-MA_line.py: the Dash page ---------------------------
    disk,           \* DATA_DIR: for each code its CSV file, if any
    stock_code,     \* value of the input "stock-code"
    selected_period,\* data of the store "selected-period"
    figure,         \* figure of "kline-graph", as drawn
    chart_pending,  \* update_chart has been triggered and not yet answered
    hoverData,      \* hoverData of "kline-graph"
    hover_info,     \* children of "hover-info"
    last_hover      \* observation of the last pointer event

ingestVars == << catalog_exists, codes, files, pc, i, total, success_count,
                 fail_count, skip_count, run, log, files0, prev_log, prev_pc >>

pipeVars == << df, period_arg, out, stage, point_index, readout >>

viewVars == << disk, stock_code, selected_period, figure, chart_pending,
               hoverData, hover_info, last_hover >>

vars == << ingestVars, pipeVars, viewVars >>

(***************************************************************************)
(* Bounds                                                                  *)
(***************************************************************************)
MaxCodes == 3      \* symbols in the catalog
MaxRows  == 2      \* rows of a frame the provider returns
MaxRuns  == 2      \* times the script is started
LastDay  == 98     \* last day of the window daily bars are drawn from
MaxLen   == 56     \* longest bar series add_ma is applied to
MaxSeed  == 2      \* close-price patterns of those series

(***************************************************************************)
(* Ingestion: data                                                         *)
(***************************************************************************)
AllCodes == 1 .. MaxCodes

\* A file name  Ashare_{code}_{row_count}_{start_date}.csv  (line 81); the
\* start date is written as the day number of the frame's first row.
FileName(code, row_count, start_date) ==
    [code |-> code, row_count |-> row_count, start_date |-> start_date]

\* f.startswith(f"Ashare_{code}_") : codes are fixed-width, so the prefix
\* selects exactly the names built from this code.
StartsWithCode(f, code) == f.code = code

\* (variant: looks for one exact file name instead of the prefix)
existing_files_exact(listing, code) ==
    { f \in listing : f = FileName(code, 1, 0) }

\* An artifact matching the symbol lies in the listing
HasArtifact(listing, code) == \E f \in listing : f.code = code

\* existing_files, line 65
existing_files(listing, code) == { f \in listing : StartsWithCode(f, code) }

\* What ak.stock_zh_a_hist can do for one request (line 36):
\*   "raise"   the request fails (network error, unknown symbol, ...)
\*   "nocols"  an empty table without columns: df[[...]] raises KeyError
\*   "norows"  a table with the columns and zero rows
\*   "frame"   a populated table of rows >= 1 rows
ProviderOutcomes ==
    { [kind |-> "raise", rows |-> 0], [kind |-> "nocols", rows |-> 0],
      [kind |-> "norows", rows |-> 0] }
    \cup { [kind |-> "frame", rows |-> n] : n \in 1 .. MaxRows }

SaveOutcomes == {"ok", "error", "partial"}

None == [isNone |-> TRUE, rows |-> 0]
DataFrame(n) == [isNone |-> FALSE, rows |-> n]

\* get_kline_data, lines 33-51: every exception of the try block gives None
get_kline_data(outcome) ==
    IF outcome.kind \in {"raise", "nocols"} THEN None
    ELSE DataFrame(outcome.rows)

\* (variant: only tests for None)
IsFailedFetch_NoneOnly(got) == got.isNone

\* df is None or df.empty, line 74
IsFailedFetch(got) == got.isNone \/ got.rows = 0

\* (variant: a second attempt after a failure)
RequestsWithRetry == 1 + 1

\* How many requests the loop body issues for a symbol without a file
\* (line 71: one call, no retry)
RequestsPerSymbol == 1

(***************************************************************************)
(* Ingestion: actions                                                      *)
(***************************************************************************)
\* Lines 23-28 and 56-60: startup.  A missing catalog is fatal.
LoadCatalog ==
    /\ pc = "start"
    /\ IF catalog_exists
         THEN /\ pc' = "loop"
              /\ total' = Len(codes)
              /\ i' = 0
              /\ success_count' = 0
              /\ fail_count' = 0
              /\ skip_count' = 0
         ELSE /\ pc' = "fatal"
              /\ UNCHANGED << total, i, success_count, fail_count, skip_count >>
    /\ UNCHANGED << catalog_exists, codes, files, run, log, files0,
                    prev_log, prev_pc >>
    /\ UNCHANGED << pipeVars, viewVars >>

\* (variant: the skip branch does not count the symbol)
Iterate_SkipUncounted(outcome, saved) ==
    /\ pc = "loop"
    /\ i < total
    /\ LET code == codes[i + 1]
           got  == get_kline_data(outcome)   \* df of line 71
           existed == HasArtifact(files, code)
       IN  IF existing_files(files, code) # {}
             THEN \* lines 66-68, without skip_count += 1
                  /\ log' = Append(log, [code |-> code, existed |-> existed,
                                         requests |-> 0, cls |-> "Skipped",
                                         outcome |-> "notasked"])
                  /\ i' = i + 1
                  /\ UNCHANGED << files, pc, success_count, fail_count,
                                  skip_count >>
             ELSE IF IsFailedFetch(got)
               THEN \* lines 74-76
                  /\ fail_count' = fail_count + 1
                  /\ log' = Append(log, [code |-> code, existed |-> existed,
                                         requests |-> RequestsPerSymbol,
                                         cls |-> "Failed", outcome |-> outcome.kind])
                  /\ i' = i + 1
                  /\ UNCHANGED << files, pc, success_count, skip_count >>
               ELSE IF saved = "ok"
                 THEN \* lines 79-86
                  /\ files' = files \cup {FileName(code, got.rows, 1)}
                  /\ success_count' = success_count + 1
                  /\ log' = Append(log, [code |-> code, existed |-> existed,
                                         requests |-> RequestsPerSymbol,
                                         cls |-> "Succeeded",
                                         outcome |-> outcome.kind])
                  /\ i' = i + 1
                  /\ UNCHANGED << pc, fail_count, skip_count >>
                 ELSE \* line 83 raises (OSError: disk full, no permission);
                      \* nothing catches it, the script ends with a traceback
                  /\ pc' = "raised"
                  /\ files' = IF saved = "partial"
                                THEN files \cup {FileName(code, got.rows, 1)}
                                ELSE files
                  /\ log' = Append(log, [code |-> code, existed |-> existed,
                                         requests |-> RequestsPerSymbol,
                                         cls |-> "Raised", outcome |-> outcome.kind])
                  /\ UNCHANGED << i, success_count, fail_count,
                                  skip_count >>
    /\ UNCHANGED << catalog_exists, codes, total, run, files0, prev_log,
                    prev_pc >>
    /\ UNCHANGED << pipeVars, viewVars >>

\* Lines 62-89: one iteration of the loop, for symbol codes[i+1].
\* outcome is what the provider does if asked; saved is what to_csv does:
\* "ok", "error" (open fails, no file) or "partial" (the write fails after
\* the file was created, e.g. disk full: the file stays behind).
Iterate(outcome, saved) ==
    /\ pc = "loop"
    /\ i < total
    /\ LET code == codes[i + 1]
           got  == get_kline_data(outcome)   \* df of line 71
           existed == HasArtifact(files, code)
       IN  IF existing_files(files, code) # {}
             THEN \* lines 66-68
                  /\ skip_count' = skip_count + 1
                  /\ log' = Append(log, [code |-> code, existed |-> existed,
                                         requests |-> 0, cls |-> "Skipped",
                                         outcome |-> "notasked"])
                  /\ i' = i + 1
                  /\ UNCHANGED << files, pc, success_count, fail_count >>
             ELSE IF IsFailedFetch(got)
               THEN \* lines 74-76
                  /\ fail_count' = fail_count + 1
                  /\ log' = Append(log, [code |-> code, existed |-> existed,
                                         requests |-> RequestsPerSymbol,
                                         cls |-> "Failed", outcome |-> outcome.kind])
                  /\ i' = i + 1
                  /\ UNCHANGED << files, pc, success_count, skip_count >>
               ELSE IF saved = "ok"
                 THEN \* lines 79-86
                  /\ files' = files \cup {FileName(code, got.rows, 1)}
                  /\ success_count' = success_count + 1
                  /\ log' = Append(log, [code |-> code, existed |-> existed,
                                         requests |-> RequestsPerSymbol,
                                         cls |-> "Succeeded",
                                         outcome |-> outcome.kind])
                  /\ i' = i + 1
                  /\ UNCHANGED << pc, fail_count, skip_count >>
                 ELSE \* line 83 raises (OSError: disk full, no permission);
                      \* nothing catches it, the script ends with a traceback
                  /\ pc' = "raised"
                  /\ files' = IF saved = "partial"
                                THEN files \cup {FileName(code, got.rows, 1)}
                                ELSE files
                  /\ log' = Append(log, [code |-> code, existed |-> existed,
                                         requests |-> RequestsPerSymbol,
                                         cls |-> "Raised", outcome |-> outcome.kind])
                  /\ UNCHANGED << i, success_count, fail_count,
                                  skip_count >>
    /\ UNCHANGED << catalog_exists, codes, total, run, files0, prev_log,
                    prev_pc >>
    /\ UNCHANGED << pipeVars, viewVars >>

\* Lines 94-98: the final summary
Summary ==
    /\ pc = "loop"
    /\ i = total
    /\ pc' = "done"
    /\ UNCHANGED << catalog_exists, codes, files, i, total, success_count,
                    fail_count, skip_count, run, log, files0, prev_log,
                    prev_pc >>
    /\ UNCHANGED << pipeVars, viewVars >>

\* The script is started again over the same catalog and data directory;
\* nothing is deleted in between.
Rerun ==
    /\ pc \in {"done", "raised"}
    /\ run < MaxRuns
    /\ run' = run + 1
    /\ pc' = "start"
    /\ prev_log' = log
    /\ prev_pc' = pc
    /\ log' = << >>
    /\ files0' = files
    /\ UNCHANGED << catalog_exists, codes, files, i, total, success_count,
                    fail_count, skip_count >>
    /\ UNCHANGED << pipeVars, viewVars >>

\* The catalog lists each code once (it is the provider's code table saved
\* by 1-1-All_Code.py), in any order; by symmetry the order 1, 2, ... is taken.
\* Files that may lie in the data directory before the first run: for each
\* code at most one artifact of an earlier download (possibly stale).
OldFiles == { FileName(c, 1, 0) : c \in AllCodes }

\* The state of the download script before it is started
IngestIdle ==
    /\ catalog_exists = TRUE
    /\ codes = << >>
    /\ files = {}
    /\ pc = "start"
    /\ i = 0
    /\ total = 0
    /\ success_count = 0
    /\ fail_count = 0
    /\ skip_count = 0
    /\ run = 1
    /\ log = << >>
    /\ files0 = {}
    /\ prev_log = << >>
    /\ prev_pc = "none"

\* The state of the pipeline before a frame is loaded
PipeIdle ==
    /\ df = << >>
    /\ period_arg = "daily"
    /\ out = << >>
    /\ stage = "idle"
    /\ point_index = 0
    /\ readout = [kind |-> "awaiting"]

\* The state of the page before it is opened
ViewIdle ==
    /\ disk = << >>
    /\ stock_code = << >>
    /\ selected_period = "daily"
    /\ figure = [rows |-> << >>, symbol |-> << >>, period |-> "daily"]
    /\ chart_pending = FALSE
    /\ hoverData = [points |-> << >>]
    /\ hover_info = [kind |-> "awaiting"]
    /\ last_hover = [seen |-> FALSE]

InitIngest ==
    /\ PipeIdle
    /\ ViewIdle
    /\ catalog_exists \in BOOLEAN
    /\ codes \in { [k \in 1 .. n |-> k] : n \in 0 .. MaxCodes }
    /\ files \in SUBSET OldFiles
    /\ pc = "start"
    /\ i = 0
    /\ total = 0
    /\ success_count = 0
    /\ fail_count = 0
    /\ skip_count = 0
    /\ run = 1
    /\ log = << >>
    /\ files0 = files
    /\ prev_log = << >>
    /\ prev_pc = "none"

NextIngest ==
    \/ LoadCatalog
    \/ \E outcome \in ProviderOutcomes, saved \in SaveOutcomes :
          Iterate(outcome, saved)
    \/ Summary
    \/ Rerun

SpecIngest == InitIngest /\ [][NextIngest]_vars

(***************************************************************************)
(* 3-2-K_line-MA_line.py: calendar                                         *)
(* A date is a day number: day 0 is Monday 2024-12-30, so d % 7 is the     *)
(* weekday with Monday = 0 ... Friday = 4 (pandas' numbering).             *)
(***************************************************************************)
Weekday(d) == d % 7

\* Day numbers of the month ends 2024-12-31, 2025-01-31, 2025-02-28, ...,
\* 2025-07-31.
MonthEndDays == << 1, 32, 60, 91, 121, 152, 182, 213 >>
MonthEndSet == { MonthEndDays[m] : m \in 1 .. Len(MonthEndDays) }

\* (variant: anchors the week on Sunday, pandas' default "W")
WeekEnd_Sunday(d) == d + (6 - Weekday(d))

\* "W-FRI", line 51: the bin (previous Friday, Friday] a date falls in,
\* named by its right edge
WeekEnd(d) == d + (((4 - Weekday(d)) + 7) % 7)

\* "ME", line 59: the calendar month a date falls in, named by its last day
MonthEnd(d) ==
    CHOOSE m \in MonthEndSet : m >= d /\ \A x \in MonthEndSet : x >= d => m <= x

\* the label of the bin of date d
PeriodEnd(period, d) == IF period = "weekly" THEN WeekEnd(d) ELSE MonthEnd(d)

\* the label that follows label lab in the bin range
NextLabel(period, lab) ==
    IF period = "weekly" THEN lab + 7 ELSE PeriodEnd(period, lab + 1)

(***************************************************************************)
(* Frames.  A row is a record date, open, high, low, close, volume; prices *)
(* are in 1/100 (the provider's quotes have two decimals), volume is a     *)
(* whole number.  A float cell that may be NaN is << >> for NaN and << v >>*)
(* for the number v; a mean is << sum, n >>, the rational sum / n.         *)
(***************************************************************************)
NaN == << >>
Num(v) == << v >>
Mean(sum, n) == << sum, n >>
IsNaN(x) == x = NaN

Row(date, o, h, l, c, v) ==
    [date |-> date, open |-> o, high |-> h, low |-> l, close |-> c, volume |-> v]

\* df.sort_values("date"), line 38 (dates of a stored frame are distinct)
RECURSIVE sort_values(_)
sort_values(rows) ==
    IF rows = << >> THEN << >>
    ELSE LET k == CHOOSE a \in 1 .. Len(rows) :
                     \A b \in 1 .. Len(rows) : rows[a].date <= rows[b].date
         IN  << rows[k] >> \o
             sort_values(SubSeq(rows, 1, k - 1) \o SubSeq(rows, k + 1, Len(rows)))

\* the rows of frame d that fall in the bin labelled lab
BinRows(d, period, lab) ==
    LET InBin(r) == PeriodEnd(period, r.date) = lab
    IN  SelectSeq(d, InBin)

RECURSIVE SumVolume(_)
SumVolume(g) == IF g = << >> THEN 0 ELSE g[1].volume + SumVolume(Tail(g))

\* (variant: a bin is dated by its first bar instead of its right edge)
AggRow_first_date(d, period, lab) ==
    LET g == BinRows(d, period, lab)
        n == Len(g)
    IN  IF n = 0
          THEN Row(lab, NaN, NaN, NaN, NaN, Num(0))
          ELSE Row(g[1].date,
                   Num(g[1].open),
                   Num(CHOOSE h \in { g[k].high : k \in 1 .. n } :
                          \A k \in 1 .. n : g[k].high <= h),
                   Num(CHOOSE l \in { g[k].low : k \in 1 .. n } :
                          \A k \in 1 .. n : l <= g[k].low),
                   Num(g[n].close),
                   Num(SumVolume(g)))

\* .agg({"open": "first", "high": "max", "low": "min", "close": "last",
\*       "volume": "sum"}), lines 51-56 and 59-64, for one bin; an empty bin
\* gives NaN for first/max/min/last and 0 for sum
AggRow(d, period, lab) ==
    LET g == BinRows(d, period, lab)
        n == Len(g)
    IN  IF n = 0
          THEN Row(lab, NaN, NaN, NaN, NaN, Num(0))
          ELSE Row(lab,
                   Num(g[1].open),
                   Num(CHOOSE h \in { g[k].high : k \in 1 .. n } :
                          \A k \in 1 .. n : g[k].high <= h),
                   Num(CHOOSE l \in { g[k].low : k \in 1 .. n } :
                          \A k \in 1 .. n : l <= g[k].low),
                   Num(g[n].close),
                   Num(SumVolume(g)))

\* the bin labels resample lays out: every period from the one of the first
\* date to the one of the last date
RECURSIVE BinLabels(_, _, _)
BinLabels(period, lab, lastLab) ==
    IF lab > lastLab THEN << >>
    ELSE << lab >> \o BinLabels(period, NextLabel(period, lab), lastLab)

\* df.set_index("date").resample(rule).agg(...), lines 48-56 / 59-64
resample_agg(d, period) ==
    IF d = << >> THEN << >>
    ELSE LET labels == BinLabels(period, PeriodEnd(period, d[1].date),
                                 PeriodEnd(period, d[Len(d)].date))
         IN  [b \in 1 .. Len(labels) |-> AggRow(d, period, labels[b])]

\* .dropna(), lines 57 and 65: rows with a NaN cell are removed
dropna(rows) ==
    LET Complete(r) == ~(IsNaN(r.open) \/ IsNaN(r.high) \/ IsNaN(r.low)
                           \/ IsNaN(r.close) \/ IsNaN(r.volume))
    IN  SelectSeq(rows, Complete)

\* .reset_index(), lines 57 and 65: the label becomes the date column; the
\* cells, all numbers now, are written as plain numbers again
reset_index(rows) ==
    [k \in 1 .. Len(rows) |->
        Row(rows[k].date, rows[k].open[1], rows[k].high[1], rows[k].low[1],
            rows[k].close[1], rows[k].volume[1])]

\* (variant: a last period that has not ended yet is held back)
resample_complete_only(d, period) ==
    IF period = "daily" THEN d
    ELSE LET rows == reset_index(dropna(resample_agg(d, period)))
         IN  IF rows # << >> /\ d[Len(d)].date < rows[Len(rows)].date
               THEN SubSeq(rows, 1, Len(rows) - 1)
               ELSE rows

\* resample_k_data, lines 44-67
resample_k_data(d, period) ==
    IF period = "daily" THEN d
    ELSE reset_index(dropna(resample_agg(d, period)))

\* MA_WINDOWS, line 20
MA_WINDOWS == << 3, 5, 8, 13, 21, 34, 55 >>
WindowSet == { MA_WINDOWS[k] : k \in 1 .. Len(MA_WINDOWS) }

\* (variant: a mean as soon as one value is in the window)
min_periods_one(w) == w - w + 1

\* rolling(w) without min_periods: the window must be full
min_periods(w) == w

\* sum of close over rows a .. b
RECURSIVE close_sum(_, _, _)
close_sum(d, a, b) ==
    IF a > b THEN 0
    ELSE IF a = b THEN d[a].close
    ELSE LET m == (a + b) \div 2
         IN  close_sum(d, a, m) + close_sum(d, m + 1, b)

\* The sliding window of rolling(w) after row k: every row up to k has been
\* added once, every row that left the window (rows 1 .. k-w) removed once
roll(d, w, k) ==
    LET left == IF k > w THEN k - w ELSE 0
    IN  [sum  |-> close_sum(d, 1, k) - close_sum(d, 1, left),
         nobs |-> k - left]

\* df["close"].rolling(w).mean() at row k, line 24
rolling_mean(d, w, k) ==
    LET win == roll(d, w, k)
    IN  IF win.nobs >= min_periods(w) THEN Mean(win.sum, win.nobs) ELSE NaN

\* add_ma, lines 22-25: one column MA{w} per window
add_ma(d) ==
    [k \in 1 .. Len(d) |->
        d[k] @@ [MA |-> [w \in WindowSet |-> rolling_mean(d, w, k)]]]

(***************************************************************************)
(* Stored frames                                                           *)
(***************************************************************************)
FirstDay == 12 * 7          \* Monday 2025-03-24
\* the trading days a stored daily frame may hold: the weekdays of the
\* window and two later days (so that whole weeks and months can be empty)
DayPool == { d \in (FirstDay .. LastDay) \cup {LastDay + 9, LastDay + 57} :
                Weekday(d) < 5 }

\* the bar of day d: low <= open, close <= high, varying with the day
BarOn(d) ==
    LET low == 1000 + ((d * 37) % 17) * 10
    IN  Row(d, low + ((d * 5) % 7), low + 7 + (d % 3), low, low + ((d * 3) % 7),
            100 + ((d * 13) % 29))

RECURSIVE FrameOfDays(_)
FrameOfDays(S) ==
    IF S = {} THEN << >>
    ELSE LET m == CHOOSE x \in S : \A y \in S : x <= y
         IN  << BarOn(m) >> \o FrameOfDays(S \ {m})

\* a bar series of n rows on consecutive days whose closes follow pattern seed
LongFrame(n, seed) ==
    [k \in 1 .. n |->
        LET c == 1000 + ((k * (7 + 4 * seed) + seed * k * k) % 23) * 3
        IN  Row(k, c, c + 5, c - 5, c, 100 + k)]

(***************************************************************************)
(* display_hover: formatting of the readout                                *)
(***************************************************************************)
\* row["date"].strftime("%Y-%m-%d"), line 309: year, month and day of the
\* month of a day number
strftime(d) ==
    LET m == CHOOSE x \in 1 .. Len(MonthEndDays) : MonthEndDays[x] = MonthEnd(d)
    IN  IF m = 1
          THEN [year |-> 2024, month |-> 12, day |-> d + 30]
          ELSE [year |-> 2025, month |-> m - 1, day |-> d - MonthEndDays[m - 1]]

EmDash == [na |-> TRUE, int |-> 0, dec |-> 0, places |-> 0]

\* fmt.format(val) for "{:.2f}" and "{:.0f}": the digits before and after
\* the point.  A price cell holds 1/100 units; a mean sum/n is rounded to
\* the nearest 1/100.
format_fixed(val, places) ==
    LET n == IF Len(val) = 2 THEN val[2] ELSE 1
        q == (2 * val[1] + n) \div (2 * n)
    IN  IF places = 0
          THEN [na |-> FALSE, int |-> q, dec |-> 0, places |-> 0]
          ELSE [na |-> FALSE, int |-> q \div 100, dec |-> q % 100, places |-> 2]

\* safe, lines 301-307
safe(val, places) == IF IsNaN(val) THEN EmDash ELSE format_fixed(val, places)

\* hoverData of dcc.Graph: None before any pointer event, else a list of
\* points, each with or without a pointIndex
NoHover == [present |-> FALSE, points |-> << >>]
PointerAt(k) ==
    [present |-> TRUE, points |-> << [hasIndex |-> TRUE, pointIndex |-> k] >>]

\* next((p.get("pointIndex") for p in points if "pointIndex" in p), None),
\* line 295; None is given as [isNone |-> TRUE]
first_point_index(points) ==
    LET with == { k \in 1 .. Len(points) : points[k].hasIndex }
    IN  IF with = {} THEN [isNone |-> TRUE, value |-> 0]
        ELSE [isNone |-> FALSE,
              value |-> points[CHOOSE k \in with : \A j \in with : k <= j].pointIndex]

\* df.iloc[int(point_index)], line 299: positions -n .. n-1 address a row
\* (a negative one counts from the end), any other raises IndexError
iloc(frame, idx) ==
    LET n == Len(frame)
    IN  IF 0 <= idx /\ idx < n THEN [raised |-> FALSE, row |-> frame[idx + 1]]
        ELSE IF 0 - n <= idx /\ idx < 0
          THEN [raised |-> FALSE, row |-> frame[n + idx + 1]]
        ELSE [raised |-> TRUE, row |-> << >>]

\* (variant: the upper bound is tested with > instead of >=)
cannot_locate_off_by_one(pi, n) == pi.isNone \/ pi.value < 0 \/ pi.value > n

\* the test of line 296: point_index is None, negative or >= len(df)
cannot_locate(pi, n) == pi.isNone \/ pi.value < 0 \/ pi.value >= n

\* the body of the second try, lines 294-335; an exception raised in it is
\* given as kind "raised"
hover_try(frame, hd) ==
    LET pi == first_point_index(hd.points)
    IN  IF cannot_locate(pi, Len(frame))
          THEN [kind |-> "unresolved"]
          ELSE LET got == iloc(frame, pi.value)
               IN  IF got.raised THEN [kind |-> "raised"]
                   ELSE LET row == got.row
                        IN  [kind   |-> "row",
                             date   |-> strftime(row.date),
                             open   |-> safe(Num(row.open), 2),
                             high   |-> safe(Num(row.high), 2),
                             low    |-> safe(Num(row.low), 2),
                             close  |-> safe(Num(row.close), 2),
                             volume |-> safe(Num(row.volume), 0),
                             MA     |-> [w \in WindowSet |-> safe(row.MA[w], 2)]]

\* lines 293-337: the readout for the frame the callback computed; the
\* except of lines 336-337 turns an exception into a placeholder
hover_lookup(frame, hd) ==
    LET r == hover_try(frame, hd)
    IN  IF r.kind = "raised" THEN [kind |-> "parse_error"] ELSE r

(***************************************************************************)
(* The pipeline load -> resample_k_data -> add_ma -> readout, step by step *)
(***************************************************************************)
\* update_chart / display_hover, lines 264 and 288
ResampleStep(p) ==
    /\ stage = "loaded"
    /\ period_arg' = p
    /\ out' = resample_k_data(df, p)
    /\ stage' = "resampled"
    /\ UNCHANGED << df, point_index, readout >>
    /\ UNCHANGED << ingestVars, viewVars >>

\* update_chart / display_hover, lines 265 and 289
AddMaStep ==
    /\ stage = "resampled"
    /\ out' = add_ma(out)
    /\ stage' = "ma"
    /\ UNCHANGED << df, period_arg, point_index, readout >>
    /\ UNCHANGED << ingestVars, viewVars >>

\* display_hover, lines 293-337, for a pointer on plotted point k
HoverStep(k) ==
    /\ stage = "ma"
    /\ point_index' = k
    /\ readout' = hover_lookup(out, PointerAt(k))
    /\ stage' = "hover"
    /\ UNCHANGED << df, period_arg, out >>
    /\ UNCHANGED << ingestVars, viewVars >>

Periods == {"daily", "weekly", "monthly"}

InitAgg ==
    /\ IngestIdle
    /\ ViewIdle
    /\ df \in { FrameOfDays(S) : S \in SUBSET DayPool }
    /\ period_arg = "daily"
    /\ out = << >>
    /\ stage = "loaded"
    /\ point_index = 0
    /\ readout = [kind |-> "awaiting"]

NextAgg ==
    \/ \E p \in Periods : ResampleStep(p)
    \/ AddMaStep
    \/ \E k \in 0 .. Len(out) - 1 : HoverStep(k)

SpecAgg == InitAgg /\ [][NextAgg]_vars

\* add_ma applied to bar series of every length up to MaxLen
InitMA ==
    /\ IngestIdle
    /\ ViewIdle
    /\ df \in { LongFrame(n, seed) : n \in 0 .. MaxLen, seed \in 1 .. MaxSeed }
    /\ period_arg = "daily"
    /\ out = df
    /\ stage = "resampled"
    /\ point_index = 0
    /\ readout = [kind |-> "awaiting"]

NextMA == AddMaStep

SpecMA == InitMA /\ [][NextMA]_vars

(***************************************************************************)
(* The Dash page: load_local_stock_data, update_chart, display_hover and   *)
(* the callbacks that set their inputs.  A text is a sequence of           *)
(* one-character strings.                                                  *)
(***************************************************************************)
SymbolWidth == 6

\* symbol.strip(), lines 249 and 286
RECURSIVE strip(_)
strip(t) ==
    IF t = << >> THEN t
    ELSE IF Head(t) = " " THEN strip(Tail(t))
    ELSE IF t[Len(t)] = " " THEN strip(SubSeq(t, 1, Len(t) - 1))
    ELSE t

\* .zfill(6), lines 249 and 286
zfill(t, width) ==
    IF Len(t) >= width THEN t ELSE [k \in 1 .. width - Len(t) |-> "0"] \o t

Code7 == << "0", "0", "0", "0", "0", "7" >>
Code1 == << "0", "0", "0", "0", "0", "1" >>
StoredCodes == { Code7, Code1 }
\* what the user may type into the input
InputValues == { Code7, << " ", "7" >>, Code1 }

NoFile == [exists |-> FALSE, rows |-> << >>]
CsvFile(rows) == [exists |-> TRUE, rows |-> rows]

\* load_local_stock_data, lines 30-39; FileNotFoundError is ok = FALSE
load_local_stock_data(store, symbol) ==
    LET matching == { c \in DOMAIN store : store[c].exists /\ c = symbol }
    IN  IF matching = {}
          THEN [ok |-> FALSE, df |-> << >>]
          ELSE [ok |-> TRUE,
                df |-> sort_values(store[CHOOSE c \in matching : TRUE].rows)]

\* lines 264-265 of update_chart
chart_frame(d, period) == add_ma(resample_k_data(d, period))

\* (variant: the readout is computed from the daily frame, as in the page
\* without period buttons)
hover_frame_daily(d, period) == add_ma(d)

\* lines 288-289 of display_hover
hover_frame(d, period) == add_ma(resample_k_data(d, period))

\* go.Figure() : nothing is plotted
EmptyFigure(symbol, period) ==
    [rows |-> << >>, symbol |-> symbol, period |-> period]

\* update_chart, lines 245-269: the rows create_kline_ma_figure plots, in
\* plotting order (x = df["date"], point k is row k)
update_chart(symbol, period, store) ==
    IF symbol = << >> THEN EmptyFigure(symbol, period)
    ELSE LET sym == zfill(strip(symbol), SymbolWidth)
             ld  == load_local_stock_data(store, sym)
         IN  IF ~ld.ok THEN EmptyFigure(symbol, period)
             ELSE [rows |-> chart_frame(ld.df, period), symbol |-> symbol,
                   period |-> period]

\* display_hover, lines 280-337
display_hover(hd, symbol, period, store) ==
    IF ~hd.present THEN [kind |-> "awaiting"]
    ELSE IF symbol = << >> THEN [kind |-> "nosymbol"]
    ELSE LET sym == zfill(strip(symbol), SymbolWidth)
             ld  == load_local_stock_data(store, sym)
         IN  IF ~ld.ok THEN [kind |-> "loadfail"]
             ELSE hover_lookup(hover_frame(ld.df, period), hd)

\* The user edits the input "stock-code": update_chart is triggered
TypeSymbol(v) ==
    /\ v # stock_code
    /\ stock_code' = v
    /\ chart_pending' = TRUE
    /\ UNCHANGED << disk, selected_period, figure, hoverData, hover_info,
                    last_hover >>
    /\ UNCHANGED << ingestVars, pipeVars >>

\* clear_input, lines 188-191, on a click of "clear-btn"
clear_input ==
    /\ stock_code' = << >>
    /\ chart_pending' = TRUE
    /\ UNCHANGED << disk, selected_period, figure, hoverData, hover_info,
                    last_hover >>
    /\ UNCHANGED << ingestVars, pipeVars >>

\* select_period, lines 202-213, on a click of one of the period buttons
select_period(button_id) ==
    /\ selected_period' =
          IF button_id = "btn-daily" THEN "daily"
          ELSE IF button_id = "btn-weekly" THEN "weekly"
          ELSE IF button_id = "btn-monthly" THEN "monthly"
          ELSE "daily"
    /\ chart_pending' = TRUE
    /\ UNCHANGED << disk, stock_code, figure, hoverData, hover_info,
                    last_hover >>
    /\ UNCHANGED << ingestVars, pipeVars >>

\* The triggered update_chart callback runs and the graph is redrawn
UpdateChart ==
    /\ chart_pending
    /\ figure' = update_chart(stock_code, selected_period, disk)
    /\ chart_pending' = FALSE
    /\ UNCHANGED << disk, stock_code, selected_period, hoverData, hover_info,
                    last_hover >>
    /\ UNCHANGED << ingestVars, pipeVars >>

\* The pointer moves onto point k of the graph as drawn: hoverData changes
\* and display_hover runs with the current input value and period (State)
Hover(k) ==
    /\ k \in 0 .. Len(figure.rows) - 1
    /\ hoverData' = PointerAt(k)
    /\ hover_info' = display_hover(PointerAt(k), stock_code, selected_period, disk)
    /\ last_hover' = [seen |-> TRUE, k |-> k, symbol |-> stock_code,
                      period |-> selected_period,
                      drawn |-> figure.rows[k + 1]]
    /\ UNCHANGED << disk, stock_code, selected_period, figure, chart_pending >>
    /\ UNCHANGED << ingestVars, pipeVars >>

\* the stored frames of the page's data directory: seven trading days from
\* a Wednesday on, across a month end, and three days from a Friday on
LongView == FrameOfDays({ d \in FirstDay + 2 .. FirstDay + 10 : Weekday(d) < 5 })
ShortView == FrameOfDays({ FirstDay + 4, FirstDay + 7, FirstDay + 8 })
Disks ==
    { [c \in StoredCodes |-> IF c = Code7 THEN f7 ELSE f1] :
        f7 \in {NoFile, CsvFile(LongView), CsvFile(ShortView)},
        f1 \in {NoFile, CsvFile(ShortView)} }

\* The page as served: layout values of lines 148 and 178, the initial
\* callbacks still to run
InitView ==
    /\ IngestIdle
    /\ PipeIdle
    /\ disk \in Disks
    /\ stock_code = Code7
    /\ selected_period = "daily"
    /\ figure = EmptyFigure(<< >>, "daily")
    /\ chart_pending = TRUE
    /\ hoverData = NoHover
    /\ hover_info = display_hover(NoHover, Code7, "daily", disk)
    /\ last_hover = [seen |-> FALSE]

Buttons == {"btn-daily", "btn-weekly", "btn-monthly"}

NextView ==
    \/ \E v \in InputValues : TypeSymbol(v)
    \/ clear_input
    \/ \E b \in Buttons : select_period(b)
    \/ UpdateChart
    \/ \E k \in 0 .. Len(figure.rows) - 1 : Hover(k)

SpecView == InitView /\ [][NextView]_vars

(***************************************************************************)
(* display_hover as a function of its three arguments and the data         *)
(* directory: every hoverData the graph can deliver, every input value     *)
(* (the cleared input included), every period.                             *)
(***************************************************************************)
NoIndexPoint == [hasIndex |-> FALSE, pointIndex |-> 0]
IndexPoint(k) == [hasIndex |-> TRUE, pointIndex |-> k]
\* pointer positions: one before the first point up to two past the last
\* point of the longest stored frame
PointerPositions == (0 - 1) .. Len(LongView) + 1
HoverPayloads ==
    { NoHover,
      [present |-> TRUE, points |-> << >>],
      [present |-> TRUE, points |-> << NoIndexPoint >>] }
    \cup { PointerAt(k) : k \in PointerPositions }
    \cup { [present |-> TRUE, points |-> << NoIndexPoint, IndexPoint(k) >>] :
             k \in PointerPositions }

InitHover ==
    /\ IngestIdle
    /\ PipeIdle
    /\ disk \in Disks
    /\ stock_code \in InputValues \cup { << >> }
    /\ selected_period \in Periods
    /\ figure = EmptyFigure(<< >>, "daily")
    /\ chart_pending = FALSE
    /\ hoverData \in HoverPayloads
    /\ hover_info = [kind |-> "awaiting"]
    /\ last_hover = [seen |-> FALSE]

\* the display_hover callback runs on the hoverData delivered, lines 274-337
HoverCallback ==
    /\ ~last_hover.seen
    /\ hover_info' = display_hover(hoverData, stock_code, selected_period, disk)
    /\ last_hover' = [seen |-> TRUE]
    /\ UNCHANGED << disk, stock_code, selected_period, figure, chart_pending,
                    hoverData >>
    /\ UNCHANGED << ingestVars, pipeVars >>

NextHover == HoverCallback

SpecHover == InitHover /\ [][NextHover]_vars

(***************************************************************************)
(* Ingestion: properties                                                   *)
(***************************************************************************)
Handled == 1 .. Len(log)
ClsIn(lg, code, classes) ==
    \E j \in 1 .. Len(lg) : lg[j].code = code /\ lg[j].cls \in classes
FailingOutcomes == {"raise", "nocols", "norows"}
\* N and M of the current run
NSymbols == Len(codes)
MPreExisting == Cardinality({ j \in 1 .. Len(codes) : HasArtifact(files0, codes[j]) })

\* C1 (as stated): in a second run that follows a completed first run with
\* no deletions in between, no symbol is classified Succeeded, and every
\* symbol with an artifact in the store is classified Skipped.
C1_SecondRunNoSucceeded ==
    (run >= 2 /\ prev_pc = "done") =>
        \A j \in Handled :
            /\ log[j].cls # "Succeeded"
            /\ HasArtifact(files0, log[j].code) => log[j].cls = "Skipped"

\* C1 (amended): in a re-run with no deletions in between, a symbol is
\* classified Succeeded only if it had no artifact when the re-run began,
\* that is, it was neither Succeeded nor Skipped in the run before (its fetch
\* failed there or it was not reached); every symbol with an artifact in the
\* store is classified Skipped, in particular every symbol that was Succeeded
\* or Skipped in the run before.
C1_Idempotence ==
    run >= 2 =>
        \A j \in Handled :
            /\ log[j].cls = "Succeeded" =>
                  /\ ~HasArtifact(files0, log[j].code)
                  /\ ~ClsIn(prev_log, log[j].code, {"Succeeded", "Skipped"})
            /\ HasArtifact(files0, log[j].code) => log[j].cls = "Skipped"
            /\ ClsIn(prev_log, log[j].code, {"Succeeded", "Skipped"})
                  => log[j].cls = "Skipped"

\* a second run has finished in which a symbol saved by the first run was
\* skipped and a symbol that failed in the first run was fetched and saved
C1_Witness ==
    /\ run = 2
    /\ pc = "done"
    /\ \E j \in Handled :
          /\ log[j].cls = "Skipped"
          /\ ClsIn(prev_log, log[j].code, {"Succeeded"})
    /\ \E j \in Handled :
          /\ log[j].cls = "Succeeded"
          /\ ClsIn(prev_log, log[j].code, {"Failed"})

\* C2: with N symbols, M of them with an artifact when the run starts, and
\* every fetch of the run failing (raising or returning an empty result),
\* the run does not raise and ends with succeeded = 0, failed = N - M,
\* skipped = M.
C2_FailureAccounting ==
    (pc \in {"loop", "done", "raised"}
       /\ \A j \in Handled : log[j].outcome \in FailingOutcomes \cup {"notasked"})
    => /\ pc # "raised"
       /\ pc = "loop" => (i < total => ENABLED (\E o \in ProviderOutcomes, s \in SaveOutcomes : Iterate(o, s)))
       /\ pc = "done" =>
             /\ success_count = 0
             /\ fail_count = NSymbols - MPreExisting
             /\ skip_count = MPreExisting

\* a finished run over 3 symbols, 1 of them present before, in which one
\* fetch raised and one returned an empty table
C2_Witness ==
    /\ pc = "done"
    /\ NSymbols = 3
    /\ MPreExisting = 1
    /\ fail_count = 2
    /\ \E j \in Handled : log[j].outcome = "raise"
    /\ \E j \in Handled : log[j].outcome = "norows"

\* C3: once the catalog is loaded nothing is raised to the caller, whatever
\* happens while one symbol is handled, and the summary is only reached
\* after every symbol of the list has been handled in order.
C3_NeverRaises ==
    /\ pc # "raised"
    /\ pc = "done" =>
          /\ Len(log) = total
          /\ \A j \in Handled : log[j].code = codes[j]

\* C4: within one run, no request is issued for a symbol whose artifact
\* exists when it is reached (however stale); exactly one request is issued
\* otherwise, and a symbol is never asked for a second time.
C4_OneFetchPerSymbol ==
    /\ \A j \in Handled :
          log[j].requests = (IF log[j].existed THEN 0 ELSE 1)
    /\ \A c \in AllCodes :
          Cardinality({ j \in Handled : log[j].code = c /\ log[j].requests > 0 }) <= 1
    /\ \A j, k \in Handled :
          (j < k /\ log[j].cls = "Failed") => log[k].code # log[j].code

\* a finished run that skipped a symbol with an old artifact and asked
\* once for a symbol whose fetch failed
C4_Witness ==
    /\ pc = "done"
    /\ \E j \in Handled :
          /\ log[j].existed
          /\ FileName(log[j].code, 1, 0) \in files
          /\ log[j].requests = 0
    /\ \E j \in Handled : log[j].cls = "Failed" /\ log[j].requests = 1

(***************************************************************************)
(* Aggregation and moving averages: properties                             *)
(***************************************************************************)
\* the Friday on or after day d, and the last calendar day of d's month
FridayOnOrAfter(d) == CHOOSE f \in d .. d + 6 : Weekday(f) = 4
LastDayOfMonth(d) ==
    CHOOSE m \in MonthEndSet : m >= d /\ ~\E x \in MonthEndSet : x >= d /\ x < m
EndOf(period, d) ==
    IF period = "weekly" THEN FridayOnOrAfter(d) ELSE LastDayOfMonth(d)
\* the positions of the daily bars of frame d whose period ends on day e
BarsOf(d, period, e) == { k \in 1 .. Len(d) : EndOf(period, d[k].date) = e }
PeriodsOf(d, period) == { EndOf(period, d[k].date) : k \in 1 .. Len(d) }
MinOf(S) == CHOOSE x \in S : \A y \in S : x <= y
MaxOf(S) == CHOOSE x \in S : \A y \in S : y <= x
RECURSIVE SumOver(_, _, _)
SumOver(d, S, field) ==
    IF S = {} THEN 0
    ELSE LET k == MinOf(S) IN d[k][field] + SumOver(d, S \ {k}, field)
\* row r is the aggregate of the bars of frame d in the period ending on r.date
IsAggregateOf(r, d, period) ==
    LET B == BarsOf(d, period, r.date)
    IN  /\ B # {}
        /\ r.open = d[MinOf(B)].open
        /\ r.high = MaxOf({ d[k].high : k \in B })
        /\ r.low = MinOf({ d[k].low : k \in B })
        /\ r.close = d[MaxOf(B)].close
        /\ r.volume = SumOver(d, B, "volume")

\* C8: the weekly aggregation of a date-ascending daily series has exactly
\* one row per Friday-ending week that holds a bar and none for an empty
\* week, in ascending order of week-end date, each row with the week's
\* first open, highest high, lowest low, last close and summed volume; ten
\* trading days that span two weeks give exactly two rows.
C8_WeeklyAggregation ==
    (stage = "resampled" /\ period_arg = "weekly") =>
        /\ Len(out) = Cardinality(PeriodsOf(df, "weekly"))
        /\ { out[k].date : k \in 1 .. Len(out) } = PeriodsOf(df, "weekly")
        /\ \A k \in 1 .. Len(out) - 1 : out[k].date < out[k + 1].date
        /\ \A k \in 1 .. Len(out) : IsAggregateOf(out[k], df, "weekly")
        /\ (Len(df) = 10 /\ Cardinality(PeriodsOf(df, "weekly")) = 2)
              => Len(out) = 2

\* ten trading days over two full weeks have been aggregated to two rows
C8_Witness ==
    /\ stage = "resampled"
    /\ period_arg = "weekly"
    /\ Len(df) = 10
    /\ Cardinality(BarsOf(df, "weekly", FridayOnOrAfter(df[1].date))) = 5
    /\ Cardinality(BarsOf(df, "weekly", FridayOnOrAfter(df[10].date))) = 5
    /\ Len(out) = 2
    /\ out[1].close = df[5].close

\* C9: in weekly and monthly aggregation the last, possibly incomplete
\* period is a row of its own, built from the bars that exist and dated at
\* the period end (not dropped, not merged into the row before); a single
\* trading day on the last calendar day of a month gives exactly one monthly
\* row dated at that month end with that day's open, high, low and close.
C9_TrailingPartial ==
    (stage = "resampled" /\ period_arg \in {"weekly", "monthly"} /\ df # << >>) =>
        LET last == out[Len(out)]
            bar  == df[Len(df)]
        IN  /\ Len(out) >= 1
            /\ last.date = EndOf(period_arg, bar.date)
            /\ last.date >= bar.date
            /\ IsAggregateOf(last, df, period_arg)
            /\ Len(out) >= 2 =>
                  /\ out[Len(out) - 1].date < last.date
                  /\ IsAggregateOf(out[Len(out) - 1], df, period_arg)
            /\ (Len(df) = 1 /\ period_arg = "monthly" /\ bar.date \in MonthEndSet) =>
                  /\ Len(out) = 1
                  /\ last.date = bar.date
                  /\ last.open = bar.open /\ last.high = bar.high
                  /\ last.low = bar.low /\ last.close = bar.close

\* a single bar on a month's last day has been aggregated monthly, and
\* (second disjunct) a week with two of its days follows a complete week
C9_Witness ==
    /\ stage = "resampled"
    /\ \/ /\ period_arg = "monthly"
          /\ Len(df) = 1
          /\ df[1].date \in MonthEndSet
          /\ Len(out) = 1
       \/ /\ period_arg = "weekly"
          /\ Len(df) = 7
          /\ Cardinality(BarsOf(df, "weekly", FridayOnOrAfter(df[7].date))) = 2
          /\ df[7].date < FridayOnOrAfter(df[7].date)
          /\ Len(out) = 2

\* close[a] + ... + close[b], added up five rows at a time
RECURSIVE SumRange(_, _, _)
SumRange(d, a, b) ==
    IF a > b THEN 0
    ELSE IF b - a < 5 THEN d[a].close + SumRange(d, a + 1, b)
    ELSE SumRange(d, a, a + 4) + SumRange(d, a + 5, b)

\* C10: for every window w of MA_WINDOWS and every position of a bar series
\* of any length (shorter than w and empty included), MA{w} is undefined
\* exactly at the first w-1 positions and is the mean of the last w closes
\* elsewhere; the column is as long as the series; add_ma never fails.
C10_MovingAverage ==
    /\ stage = "ma" =>
          /\ Len(out) = Len(df)
          /\ \A w \in {3, 5, 8, 13, 21, 34, 55} : \A k \in 1 .. Len(out) :
                out[k].MA[w] =
                    IF k < w THEN NaN
                    ELSE Mean(SumRange(df, k - w + 1, k), w)
          /\ Len(df) = 4 => \A k \in 1 .. 4 : IsNaN(out[k].MA[5])
          /\ Len(df) = 5 =>
                out[5].MA[5] = Mean(df[1].close + df[2].close + df[3].close
                                      + df[4].close + df[5].close, 5)

\* add_ma has run on a series long enough for the widest window
C10_Witness ==
    /\ stage = "ma"
    /\ Len(out) >= 55
    /\ IsNaN(out[54].MA[55])
    /\ ~IsNaN(out[55].MA[55])
    /\ ~IsNaN(out[3].MA[3])

(***************************************************************************)
(* Hover readout: properties                                               *)
(***************************************************************************)
\* the day number a readout's date text stands for
DateOfText(t) ==
    IF t.year = 2024 THEN t.day - 30 ELSE MonthEndDays[t.month] + t.day
\* the number (in 1/100, or whole for volume) a readout's cell stands for
ValueOfText(t) == IF t.places = 0 THEN t.int ELSE t.int * 100 + t.dec
\* what display_hover returns for the loaded frame at pointer position k
\* once the period is q
ReadoutUnder(q, k) == hover_lookup(add_ma(resample_k_data(df, q)), PointerAt(k))

\* C7 (as stated): for a fixed symbol and a pointer position in range for
\* both views, the readout dates under two different periods are never equal.
C7_PeriodSwitchChangesDate ==
    (stage = "hover" /\ readout.kind = "row") =>
        \A q \in Periods \ {period_arg} :
            LET other == ReadoutUnder(q, point_index)
            IN  other.kind = "row" => other.date # readout.date

\* C7 (amended): for a fixed symbol and a pointer position k in range for
\* both views, the weekly (monthly) date at k is a Friday (a month's last
\* day) not earlier than the daily date at k, and equals it exactly when the
\* daily bar at k is itself dated on that period end and the bars 0..k lie
\* in k+1 different periods; the weekly and the monthly date at k are equal
\* only on a Friday that is a month's last day.  In every other case
\* switching the period changes the date.
C7_PeriodSwitchDate ==
    (stage = "hover" /\ readout.kind = "row") =>
        \A q \in Periods \ {period_arg} :
            LET other == ReadoutUnder(q, point_index)
                here  == DateOfText(readout.date)
                there == DateOfText(other.date)
                k     == point_index + 1
                Coincide(P, day) ==
                    /\ EndOf(P, day) = day
                    /\ Cardinality({ EndOf(P, df[j].date) : j \in 1 .. k }) = k
            IN  other.kind = "row" =>
                  /\ period_arg = "weekly" => Weekday(here) = 4
                  /\ period_arg = "monthly" => here \in MonthEndSet
                  /\ (period_arg = "daily" /\ here = df[k].date) =>
                        /\ there >= here
                        /\ there = here <=> Coincide(q, here)
                  /\ q = "daily" =>
                        /\ there = df[k].date
                        /\ here >= there
                        /\ here = there <=> Coincide(period_arg, there)
                  /\ (period_arg # "daily" /\ q # "daily" /\ here = there) =>
                        Weekday(here) = 4 /\ here \in MonthEndSet

\* the pointer rests on the second point of a weekly chart of a frame with
\* at least two weeks; the daily date at that position is another one
C7_Witness ==
    /\ stage = "hover"
    /\ period_arg = "weekly"
    /\ point_index = 1
    /\ readout.kind = "row"
    /\ ReadoutUnder("daily", 1).kind = "row"
    /\ ReadoutUnder("daily", 1).date # readout.date
    /\ ReadoutUnder("monthly", 1).kind = "row"

(***************************************************************************)
(* The page: properties                                                    *)
(***************************************************************************)
\* the symbol an input value selects
SelectedSymbol(v) == zfill(strip(v), SymbolWidth)
\* readout r reports the date, open, high, low, close and volume of row
ReportsRow(r, row) ==
    /\ r.kind = "row"
    /\ DateOfText(r.date) = row.date
    /\ ~r.open.na /\ ValueOfText(r.open) = row.open
    /\ ~r.high.na /\ ValueOfText(r.high) = row.high
    /\ ~r.low.na /\ ValueOfText(r.low) = row.low
    /\ ~r.close.na /\ ValueOfText(r.close) = row.close
    /\ ~r.volume.na /\ ValueOfText(r.volume) = row.volume
\* the chart on screen was rendered for the selection the last pointer
\* event was answered with
SameSelection ==
    /\ last_hover.seen
    /\ last_hover.symbol # << >>
    /\ figure.symbol # << >>
    /\ SelectedSymbol(figure.symbol) = SelectedSymbol(last_hover.symbol)
    /\ figure.period = last_hover.period

\* C5: for a fixed selection (stored symbol, period) and every position k
\* of the chart, the readout display_hover gives at k reports the date,
\* open, high, low, close and volume of the row update_chart plots at k.
C5_HoverRenderConsistency ==
    (SameSelection /\ last_hover.k < Len(figure.rows)) =>
        ReportsRow(hover_info, figure.rows[last_hover.k + 1])

\* the pointer was on the second point of a weekly chart of 000007 and the
\* chart on screen is the weekly chart of 000007
C5_Witness ==
    /\ SameSelection
    /\ ~chart_pending
    /\ figure.period = "weekly"
    /\ SelectedSymbol(figure.symbol) = Code7
    /\ last_hover.k = 1
    /\ Len(figure.rows) = 2
    /\ hover_info.kind = "row"

\* C6: after any interleaving of symbol changes, period clicks, re-renders
\* and pointer events, the readout of a pointer event reports the row that
\* the chart drawn at that moment shows at the pointer's position.
C6_HoverMatchesDrawn ==
    (last_hover.seen /\ hover_info.kind = "row") =>
        ReportsRow(hover_info, last_hover.drawn)

(***************************************************************************)
(* Ingestion: the running tally                                            *)
(***************************************************************************)
\* the number of symbols the current run has given the class cls
CountCls(cls) == Cardinality({ j \in Handled : log[j].cls = cls })
Tally == success_count + fail_count + skip_count
\* what a step of a run does to the counters
TallyStep ==
    LET ds == success_count' - success_count
        df_ == fail_count' - fail_count
        dk == skip_count' - skip_count
    IN  /\ pc # "start" => (ds >= 0 /\ df_ >= 0 /\ dk >= 0)
        /\ i' = i + 1 =>
              /\ {ds, df_, dk} \subseteq {0, 1}
              /\ ds + df_ + dk = 1
        /\ (pc # "start" /\ i' = i) => (ds = 0 /\ df_ = 0 /\ dk = 0)

\* C12: during a run, after the i-th symbol has been handled,
\* succeeded + failed + skipped = i <= total and each counter is the number
\* of symbols handled with that class; handling a symbol increments exactly
\* one of the three counters by exactly one, and no step of a run decreases
\* a counter.
C12_RunningTally ==
    /\ [](pc \in {"loop", "done", "raised"} =>
            /\ Tally = i
            /\ i <= total
            /\ success_count = CountCls("Succeeded")
            /\ fail_count = CountCls("Failed")
            /\ skip_count = CountCls("Skipped"))
    /\ [][TallyStep]_vars

\* a run over three symbols has ended with one symbol in each class
C12_Witness ==
    /\ pc = "done"
    /\ i = 3
    /\ success_count = 1
    /\ fail_count = 1
    /\ skip_count = 1

(***************************************************************************)
(* Ingestion: the store                                                    *)
(***************************************************************************)
\* what one step does to the data directory; the class of the iteration is
\* that of the entry the step appends to the log
StoreStep ==
    LET iterated == Len(log') = Len(log) + 1
        cls == log'[Len(log')].cls
        code == log'[Len(log')].code
    IN  /\ files \subseteq files'
        /\ files' # files =>
              /\ iterated
              /\ cls = "Succeeded"
              /\ \E f \in files' \ files :
                    /\ files' = files \cup {f}
                    /\ StartsWithCode(f, code)
        /\ (iterated /\ cls \in {"Skipped", "Failed"}) => files' = files

\* C13: an iteration changes the store only by adding one new artifact for
\* the current symbol, and only when that symbol is classified Succeeded;
\* Skipped and Failed iterations leave the store unchanged; no step removes
\* or replaces an artifact; starting from a store with at most one artifact
\* per symbol, every symbol has at most one artifact after any number of
\* runs.
C13_StoreFrame ==
    /\ [][StoreStep]_vars
    /\ [](\A c \in AllCodes : Cardinality(existing_files(files, c)) <= 1)

(***************************************************************************)
(* The hover readout: placeholders                                         *)
(***************************************************************************)
Placeholders == {"awaiting", "nosymbol", "loadfail", "unresolved", "parse_error"}
\* the stored artifact of the selected symbol, if any
HasStoredArtifact ==
    /\ SelectedSymbol(stock_code) \in DOMAIN disk
    /\ disk[SelectedSymbol(stock_code)].exists
\* the number of rows of the current series: the stored bars of the selected
\* symbol at the selected period
CurrentRows ==
    Len(resample_k_data(sort_values(disk[SelectedSymbol(stock_code)].rows),
                        selected_period))
\* the pointer index of the event: that of the first point that has one
PointerIndex == first_point_index(hoverData.points)
PointerUnresolvable(n) ==
    PointerIndex.isNone \/ PointerIndex.value < 0 \/ PointerIndex.value >= n

\* C11: display_hover never raises; it returns the awaiting placeholder
\* when there is no pointer event yet, the load-failure placeholder when the
\* selected symbol has no stored artifact, the cannot-resolve placeholder
\* when the pointer index is absent, negative or >= the number of rows of
\* the current series, in each of these cases a placeholder and not a data
\* row; a data row is returned only when 0 <= index < number of rows.
C11_HoverPlaceholders ==
    last_hover.seen =>
        /\ hover_info.kind # "raised"
        /\ hover_info.kind \in Placeholders \cup {"row"}
        /\ ~hoverData.present => hover_info.kind = "awaiting"
        /\ (hoverData.present /\ stock_code # << >> /\ ~HasStoredArtifact)
              => hover_info.kind = "loadfail"
        /\ (hoverData.present /\ HasStoredArtifact
              /\ PointerUnresolvable(CurrentRows))
              => hover_info.kind = "unresolved"
        /\ (~hoverData.present \/ ~HasStoredArtifact
              \/ PointerUnresolvable(CurrentRows))
              => hover_info.kind \in Placeholders
        /\ hover_info.kind = "row" =>
              /\ HasStoredArtifact
              /\ ~PointerIndex.isNone
              /\ 0 <= PointerIndex.value
              /\ PointerIndex.value < CurrentRows
              /\ ReportsRow(hover_info,
                    chart_frame(sort_values(disk[SelectedSymbol(stock_code)].rows),
                                selected_period)[PointerIndex.value + 1])

\* the callback has answered a pointer event whose index equals the number
\* of rows of the current series of a stored symbol
C11_Witness ==
    /\ last_hover.seen
    /\ hoverData.present
    /\ HasStoredArtifact
    /\ ~PointerIndex.isNone
    /\ PointerIndex.value = CurrentRows
    /\ CurrentRows > 0
    /\ hover_info.kind = "unresolved"

====
